---- MODULE Spec2Model ----
(***************************************************************************)
(* Model of app.py: a ZIP of presentation files is extracted, the PPT/PPTX/ *)
(* PPTM files are sorted by chapter_key, each is converted to PDF with     *)
(* LibreOffice (convert_ppt_to_pdf), and the *.pdf files of the output     *)
(* directory are packaged into PDFs.zip.                                   *)
(*                                                                         *)
(* File names are sequences of one-character strings, so that the regular  *)
(* expressions, the case conversions and the string formatting of the code *)
(* are computed character by character.                                    *)
(***************************************************************************)
EXTENDS Integers, Sequences, FiniteSets, TLC

----------------------------------------------------------------------------
(* Characters and strings                                                  *)

LowerCase == <<"a","b","c","d","e","f","g","h","i","j","k","l","m",
               "n","o","p","q","r","s","t","u","v","w","x","y","z">>
UpperCase == <<"A","B","C","D","E","F","G","H","I","J","K","L","M",
               "N","O","P","Q","R","S","T","U","V","W","X","Y","Z">>
DigitChars == <<"0","1","2","3","4","5","6","7","8","9">>

\* The characters of the model in code point order, as Python compares str.
CodePoints == <<" ", "\"", "*", ".", "/">> \o DigitChars
              \o <<":", "<", ">", "?">> \o UpperCase \o <<"\\", "_">>
              \o LowerCase \o <<"|">>

Ord(c) == CHOOSE k \in 1..Len(CodePoints) : CodePoints[k] = c

IsDigit(c) == \E k \in 1..Len(DigitChars) : DigitChars[k] = c
DigitVal(c) == (CHOOSE k \in 1..Len(DigitChars) : DigitChars[k] = c) - 1
IsSpace(c) == c \in {" ", "\t"}

UpperChar(c) ==
    IF \E k \in 1..Len(LowerCase) : LowerCase[k] = c
    THEN UpperCase[CHOOSE k \in 1..Len(LowerCase) : LowerCase[k] = c]
    ELSE c
LowerChar(c) ==
    IF \E k \in 1..Len(UpperCase) : UpperCase[k] = c
    THEN LowerCase[CHOOSE k \in 1..Len(UpperCase) : UpperCase[k] = c]
    ELSE c

\* str.upper(), str.lower()
upper(s) == [k \in 1..Len(s) |-> UpperChar(s[k])]
lower(s) == [k \in 1..Len(s) |-> LowerChar(s[k])]

\* s < t for Python str: lexicographic by code point, a proper prefix first.
StrLess(s, t) ==
    \E k \in 1..(Len(t)) :
        /\ \A m \in 1..(k-1) : m <= Len(s) /\ s[m] = t[m]
        /\ \/ k = Len(s) + 1
           \/ k <= Len(s) /\ Ord(s[k]) < Ord(t[k])

\* int(ds) of a string of decimal digits
RECURSIVE int(_)
int(ds) == IF ds = <<>> THEN 0
           ELSE 10 * int(SubSeq(ds, 1, Len(ds) - 1)) + DigitVal(ds[Len(ds)])

\* str(n) for n >= 0
RECURSIVE str(_)
str(n) == IF n < 10 THEN <<DigitChars[n + 1]>>
          ELSE str(n \div 10) \o <<DigitChars[(n % 10) + 1]>>

\* s ends with t
EndsWith(s, t) ==
    Len(t) <= Len(s) /\ SubSeq(s, Len(s) - Len(t) + 1, Len(s)) = t
StartsWith(s, t) ==
    Len(t) <= Len(s) /\ SubSeq(s, 1, Len(t)) = t

\* str.strip() and str.rstrip(): remove whitespace at the ends
rstrip(s) ==
    IF \A k \in 1..Len(s) : IsSpace(s[k]) THEN <<>>
    ELSE SubSeq(s, 1, CHOOSE k \in 1..Len(s) :
                        ~IsSpace(s[k]) /\ \A m \in (k+1)..Len(s) : IsSpace(s[m]))
lstrip(s) ==
    IF \A k \in 1..Len(s) : IsSpace(s[k]) THEN <<>>
    ELSE SubSeq(s, CHOOSE k \in 1..Len(s) :
                        ~IsSpace(s[k]) /\ \A m \in 1..(k-1) : IsSpace(s[m]),
                Len(s))
strip(s) == rstrip(lstrip(s))

----------------------------------------------------------------------------
(* pathlib: name, suffix and stem of a path. A path is [dir, name].        *)

\* Index of the last "." of the name, 0 when there is none.
LastDot(n) ==
    IF \E k \in 1..Len(n) : n[k] = "."
    THEN CHOOSE k \in 1..Len(n) :
            n[k] = "." /\ \A m \in (k+1)..Len(n) : n[m] # "."
    ELSE 0

\* PurePath.suffix: from the last dot, unless it starts or ends the name.
suffix(n) == LET d == LastDot(n)
             IN IF 1 < d /\ d < Len(n) THEN SubSeq(n, d, Len(n)) ELSE <<>>
\* PurePath.stem: the name without its suffix.
stem(n) == SubSeq(n, 1, Len(n) - Len(suffix(n)))

----------------------------------------------------------------------------
(* chapter_key: the sort key (tier, number, name)                          *)

\* End of the maximal run of characters satisfying a test, starting at p
\* (p - 1 when the run is empty).
RECURSIVE SpaceRunEnd(_, _)
SpaceRunEnd(s, p) ==
    IF p <= Len(s) /\ IsSpace(s[p]) THEN SpaceRunEnd(s, p + 1) ELSE p - 1
RECURSIVE DigitRunEnd(_, _)
DigitRunEnd(s, p) ==
    IF p <= Len(s) /\ IsDigit(s[p]) THEN DigitRunEnd(s, p + 1) ELSE p - 1

\* Group 1 of 0*(\d+) matched at p against the digit run s[p..e]: the greedy
\* 0* takes the leading zeros but gives one back when the run is all zeros.
RECURSIVE ZeroRunEnd(_, _)
ZeroRunEnd(s, p) ==
    IF p <= Len(s) /\ s[p] = "0" THEN ZeroRunEnd(s, p + 1) ELSE p - 1
Group1(s, p) ==
    LET e == DigitRunEnd(s, p)
        z == ZeroRunEnd(s, p)
    IN IF z = e THEN SubSeq(s, e, e) ELSE SubSeq(s, z + 1, e)

\* Start of the digits when CH\s*0*(\d+) matches at position p, else 0.
ChapterDigitsAt(s, p) ==
    IF p + 1 <= Len(s) /\ s[p] = "C" /\ s[p + 1] = "H"
    THEN LET q == SpaceRunEnd(s, p + 2) + 1
         IN IF q <= Len(s) /\ IsDigit(s[q]) THEN q ELSE 0
    ELSE 0

\* re.search(r"CH\s*0*(\d+)", s): group 1 of the leftmost match, or <<>>.
SearchChapter(s) ==
    IF \E p \in 1..Len(s) : ChapterDigitsAt(s, p) # 0
    THEN LET p == CHOOSE p \in 1..Len(s) :
                     /\ ChapterDigitsAt(s, p) # 0
                     /\ \A m \in 1..(p-1) : ChapterDigitsAt(s, m) = 0
         IN Group1(s, ChapterDigitsAt(s, p))
    ELSE <<>>

\* re.search(r"0*(\d+)", s): group 1 of the leftmost match, or <<>>.
SearchDigits(s) ==
    IF \E p \in 1..Len(s) : IsDigit(s[p])
    THEN LET p == CHOOSE p \in 1..Len(s) :
                     IsDigit(s[p]) /\ \A m \in 1..(p-1) : ~IsDigit(s[m])
         IN Group1(s, p)
    ELSE <<>>

NoNumber == 9999

\* The bare-digit search tried before the chapter search.
chapter_key_digits_first(n) ==
    LET name == upper(n)
        d == SearchDigits(name)
        c == SearchChapter(name)
    IN IF d # <<>> THEN <<1, int(d), n>>
       ELSE IF c # <<>> THEN <<0, int(c), n>>
       ELSE <<2, NoNumber, n>>

chapter_key(n) ==
    LET name == upper(n)
        c == SearchChapter(name)
        d == SearchDigits(name)
    IN IF c # <<>> THEN <<0, int(c), n>>
       ELSE IF d # <<>> THEN <<1, int(d), n>>
       ELSE <<2, NoNumber, n>>

\* The names of the keys compared without regard to case.
KeyLess_ignoring_case(k1, k2) ==
    \/ k1[1] < k2[1]
    \/ k1[1] = k2[1] /\ k1[2] < k2[2]
    \/ k1[1] = k2[1] /\ k1[2] = k2[2] /\ StrLess(lower(k1[3]), lower(k2[3]))

\* Python's tuple comparison k1 < k2 of two keys.
KeyLess(k1, k2) ==
    \/ k1[1] < k2[1]
    \/ k1[1] = k2[1] /\ k1[2] < k2[2]
    \/ k1[1] = k2[1] /\ k1[2] = k2[2] /\ StrLess(k1[3], k2[3])

\* list.sort(key=chapter_key): ascending and stable. Insert x behind every
\* element whose key is not greater.
RECURSIVE InsertSorted(_, _)
InsertSorted(x, sorted) ==
    IF sorted = <<>> THEN <<x>>
    ELSE LET last == sorted[Len(sorted)]
         IN IF KeyLess(chapter_key(x.name), chapter_key(last.name))
            THEN InsertSorted(x, SubSeq(sorted, 1, Len(sorted) - 1)) \o <<last>>
            ELSE sorted \o <<x>>
RECURSIVE SortByKey(_)
SortByKey(files) ==
    IF files = <<>> THEN <<>>
    ELSE InsertSorted(files[Len(files)], SortByKey(SubSeq(files, 1, Len(files) - 1)))

----------------------------------------------------------------------------
(* safe_filename and the output name                                       *)

max_len == 80

IsUnsafe(c) == c \in {"\\", "/", ":", "*", "?", "\"", "<", ">", "|"}

\* re.sub(r'[\\/:*?"<>|]+', "_", name): every run of unsafe characters
\* becomes one underscore.
IsKept(c) == c # ""
SubUnsafe(s) ==
    SelectSeq([k \in 1..Len(s) |->
                  IF ~IsUnsafe(s[k]) THEN s[k]
                  ELSE IF k < Len(s) /\ IsUnsafe(s[k + 1]) THEN "" ELSE "_"],
              IsKept)

\* The name cut at max_len and not stripped again.
safe_filename_cut_only(name) ==
    LET n1 == strip(SubUnsafe(name))
        n2 == IF Len(n1) > max_len THEN SubSeq(n1, 1, max_len) ELSE n1
    IN IF n2 = <<>> THEN <<"f","i","l","e">> ELSE n2

safe_filename(name) ==
    LET n1 == strip(SubUnsafe(name))
        n2 == IF Len(n1) > max_len THEN rstrip(SubSeq(n1, 1, max_len)) ELSE n1
    IN IF n2 = <<>> THEN <<"f","i","l","e">> ELSE n2

\* The index cut to its last two digits.
Fmt02d_last_two(i) == str((i % 100) \div 10) \o str(i % 10)

\* f"{i:02d}": decimal, zero-padded to at least two characters.
Fmt02d(i) == IF i < 10 THEN <<"0">> \o str(i) ELSE str(i)

PdfExt == <<".", "p", "d", "f">>

\* The output name without the index.
out_name_no_index(i, n) == safe_filename(stem(n)) \o PdfExt

\* f"{i:02d}_{base}.pdf" with base = safe_filename(ppt.stem)
out_name(i, n) == Fmt02d(i) \o <<"_">> \o safe_filename(stem(n)) \o PdfExt

----------------------------------------------------------------------------
(* The uploaded archive, the converter and the state of one run            *)

\* Most files an uploaded archive holds in the model.
MaxFiles == 2

N_CH01   == <<"C","H","0","1",".","p","p","t","x">>
N_3ch2   == <<"3","c","h","2",".","p","p","t">>
N_9      == <<"9",".","P","P","T","M">>
N_readme == <<"r","e","a","d","m","e",".","t","x","t">>
N_dir    == <<"d",".","p","p","t","x">>

\* An entry of the extracted tree: the folder it is in, its name, and
\* whether it is a regular file or a folder.
File(d, n) == [dir |-> d, name |-> n, is_file |-> TRUE]
Folder(d, n) == [dir |-> d, name |-> n, is_file |-> FALSE]

\* The entries an archive may hold: two files of the same name in different
\* folders, a name matching both patterns, a name with bare digits, a text
\* file, and a folder named like a presentation.
Universe ==
    { File("A", N_CH01), File("B", N_CH01), File("A", N_3ch2),
      File("A", N_9), File("A", N_readme), Folder("A", N_dir) }

Archives == { a \in SUBSET Universe : Cardinality(a) <= MaxFiles }

\* All orders in which rglob("*") may list the files of a set.
Orders(S) ==
    { o \in [1..Cardinality(S) -> S] : \A f \in S : \E k \in DOMAIN o : o[k] = f }

\* What one call of the converter does: whether the temporary copy could be
\* made, how the subprocess ended, and what it left at outdir/<tmp_stem>.pdf.
MinPdfSize == 5000
Produced ==
    { [size |-> MinPdfSize - 1, sig |-> TRUE],
      [size |-> MinPdfSize, sig |-> FALSE],
      [size |-> MinPdfSize, sig |-> TRUE] }
NoFile == [size |-> -1, sig |-> FALSE]
Outcomes ==
    { [copy |-> c, exit |-> "none", produced |-> NoFile] : c \in {"fail_src", "fail_dst"} }
    \cup [copy : {"ok"}, exit : {"zero", "nonzero", "timeout"},
          produced : Produced \cup {NoFile}]
\* The converter is not called at all.
NotCalled == [copy |-> "none", exit |-> "none", produced |-> NoFile]

EmptyFn == [x \in {} |-> x]
NoName == <<>>

VARIABLES
    SOFFICE,        \* TRUE when find_soffice() found an executable
    archive,        \* the files of the uploaded ZIP
    behaviour,      \* what the converter does with each document it was given
    zip_ok,         \* the uploaded file can be extracted
    pc,             \* "idle", "convert", "package", "report", "done", "stopped",
                    \* "crashed" after an exception that nothing caught;
                    \* "function" when a function is applied on its own
    all_files, ppt_files, skipped_files,
    i,              \* loop index of the batch loop
    errors, success_count,
    progress,       \* the values the progress bar was set to, in order
    work_dir,       \* names of the files in work/
    pdf_dir,        \* pdfs/: name -> content [size, sig]
    uuid_ctr,       \* number of uuid4() values drawn so far
    out_zip,        \* PDFs.zip: whether it was written, and its entries
    tally,          \* <<success_count, total>> once shown, else <<>>
    report,         \* the failure messages shown, in order
    tmp_exists,     \* the TemporaryDirectory of the run exists
    invoked,        \* documents convert_ppt_to_pdf was called with, in order
    results,        \* outcome of each iteration: "Success" or "Failure"
    spawned,        \* number of subprocess.run calls
    run, prev,      \* number of the run, and what the previous run returned
    arg, res        \* input and result of a function applied on its own

vars == <<SOFFICE, archive, zip_ok, behaviour, pc, all_files, ppt_files, skipped_files,
          i, errors, success_count, progress, work_dir, pdf_dir, uuid_ctr,
          out_zip, tally, report, tmp_exists, invoked, results, spawned, run, prev,
          arg, res>>

\* PDFs.zip before it is written.
NotPacked == [made |-> FALSE, entries |-> <<>>]

----------------------------------------------------------------------------
(* convert_ppt_to_pdf                                                      *)

InputPrefix == <<"i","n","p","u","t","_">>

\* The result of a call: raised or returned, the text of the exception
\* (its reason and the file name it mentions), and the two directories.
Raise(reason, mentions, wd, pd, ran) ==
    [ok |-> FALSE, err |-> [reason |-> reason, file |-> mentions],
     work_dir |-> wd, pdf_dir |-> pd, ran |-> ran]
Return(wd, pd) ==
    [ok |-> TRUE, err |-> [reason |-> "none", file |-> NoName],
     work_dir |-> wd, pdf_dir |-> pd, ran |-> TRUE]

\* made_pdf.rename(final_pdf) after final_pdf.unlink()
Rename(pd, from, to) ==
    [n \in (DOMAIN pd \ {from}) \cup {to} |-> IF n = to THEN pd[from] ELSE pd[n]]

\* The bytes the converter wrote for a document: their size, whether they
\* start with %PDF-, and the document they were made from.
Content(p, input_path) == [size |-> p.size, sig |-> p.sig, of |-> input_path]

\* The converter writes its output file.
Write(pd, name, content) ==
    [n \in DOMAIN pd \cup {name} |-> IF n = name THEN content ELSE pd[n]]

\* The call without the check that an executable was found.
convert_without_engine_check(input_path, out, oc, k, wd, pd) ==
    LET tmp_stem == InputPrefix \o str(k)
        safe_in  == tmp_stem \o lower(suffix(input_path.name))
        made_pdf == tmp_stem \o PdfExt
        wd1      == wd \cup {safe_in}
        pd1      == IF oc.produced = NoFile THEN pd
                    ELSE Write(pd, made_pdf, Content(oc.produced, input_path))
    IN  IF oc.copy = "fail_src"
        THEN Raise("CopyError", input_path.name, wd, pd, FALSE)
        ELSE IF oc.copy = "fail_dst"
        THEN Raise("CopyError", NoName, wd1, pd, FALSE)
        ELSE IF oc.exit = "timeout"
        THEN Raise("Timeout", safe_in, wd1, pd1, TRUE)
        ELSE IF oc.exit # "zero"
        THEN Raise("ConversionFailed", input_path.name, wd1, pd1, TRUE)
        ELSE IF made_pdf \notin DOMAIN pd1
        THEN Raise("OutputMissing", input_path.name, wd1, pd1, TRUE)
        ELSE IF pd1[made_pdf].size < MinPdfSize
        THEN Raise("CorruptSize", input_path.name, wd1, pd1, TRUE)
        ELSE IF ~pd1[made_pdf].sig
        THEN Raise("CorruptHeader", input_path.name, wd1, pd1, TRUE)
        ELSE Return(wd1 \ {safe_in}, Rename(pd1, made_pdf, out))

\* The call without the check of the size of the produced file.
convert_without_size_check(input_path, out, oc, k, wd, pd) ==
    LET tmp_stem == InputPrefix \o str(k)
        safe_in  == tmp_stem \o lower(suffix(input_path.name))
        made_pdf == tmp_stem \o PdfExt
        wd1      == wd \cup {safe_in}
        pd1      == IF oc.produced = NoFile THEN pd
                    ELSE Write(pd, made_pdf, Content(oc.produced, input_path))
    IN  IF ~SOFFICE
        THEN Raise("EngineUnavailable", NoName, wd, pd, FALSE)
        ELSE IF oc.copy = "fail_src"
        THEN Raise("CopyError", input_path.name, wd, pd, FALSE)
        ELSE IF oc.copy = "fail_dst"
        THEN Raise("CopyError", NoName, wd1, pd, FALSE)
        ELSE IF oc.exit = "timeout"
        THEN Raise("Timeout", safe_in, wd1, pd1, TRUE)
        ELSE IF oc.exit # "zero"
        THEN Raise("ConversionFailed", input_path.name, wd1, pd1, TRUE)
        ELSE IF made_pdf \notin DOMAIN pd1
        THEN Raise("OutputMissing", input_path.name, wd1, pd1, TRUE)
        ELSE IF ~pd1[made_pdf].sig
        THEN Raise("CorruptHeader", input_path.name, wd1, pd1, TRUE)
        ELSE Return(wd1 \ {safe_in}, Rename(pd1, made_pdf, out))

\* The call without the check of the %PDF- signature.
convert_without_header_check(input_path, out, oc, k, wd, pd) ==
    LET tmp_stem == InputPrefix \o str(k)
        safe_in  == tmp_stem \o lower(suffix(input_path.name))
        made_pdf == tmp_stem \o PdfExt
        wd1      == wd \cup {safe_in}
        pd1      == IF oc.produced = NoFile THEN pd
                    ELSE Write(pd, made_pdf, Content(oc.produced, input_path))
    IN  IF ~SOFFICE
        THEN Raise("EngineUnavailable", NoName, wd, pd, FALSE)
        ELSE IF oc.copy = "fail_src"
        THEN Raise("CopyError", input_path.name, wd, pd, FALSE)
        ELSE IF oc.copy = "fail_dst"
        THEN Raise("CopyError", NoName, wd1, pd, FALSE)
        ELSE IF oc.exit = "timeout"
        THEN Raise("Timeout", safe_in, wd1, pd1, TRUE)
        ELSE IF oc.exit # "zero"
        THEN Raise("ConversionFailed", input_path.name, wd1, pd1, TRUE)
        ELSE IF made_pdf \notin DOMAIN pd1
        THEN Raise("OutputMissing", input_path.name, wd1, pd1, TRUE)
        ELSE IF pd1[made_pdf].size < MinPdfSize
        THEN Raise("CorruptSize", input_path.name, wd1, pd1, TRUE)
        ELSE Return(wd1 \ {safe_in}, Rename(pd1, made_pdf, out))

convert_ppt_to_pdf(input_path, out, oc, k, wd, pd) ==
    LET tmp_stem == InputPrefix \o str(k)
        safe_in  == tmp_stem \o lower(suffix(input_path.name))
        made_pdf == tmp_stem \o PdfExt
        wd1      == wd \cup {safe_in}
        pd1      == IF oc.produced = NoFile THEN pd
                    ELSE Write(pd, made_pdf, Content(oc.produced, input_path))
    IN  IF ~SOFFICE
        THEN Raise("EngineUnavailable", NoName, wd, pd, FALSE)
        ELSE IF oc.copy = "fail_src"
        THEN Raise("CopyError", input_path.name, wd, pd, FALSE)
        ELSE IF oc.copy = "fail_dst"
        THEN Raise("CopyError", NoName, wd1, pd, FALSE)
        ELSE IF oc.exit = "timeout"
        THEN Raise("Timeout", safe_in, wd1, pd1, TRUE)
        ELSE IF oc.exit # "zero"
        THEN Raise("ConversionFailed", input_path.name, wd1, pd1, TRUE)
        ELSE IF made_pdf \notin DOMAIN pd1
        THEN Raise("OutputMissing", input_path.name, wd1, pd1, TRUE)
        ELSE IF pd1[made_pdf].size < MinPdfSize
        THEN Raise("CorruptSize", input_path.name, wd1, pd1, TRUE)
        ELSE IF ~pd1[made_pdf].sig
        THEN Raise("CorruptHeader", input_path.name, wd1, pd1, TRUE)
        ELSE Return(wd1 \ {safe_in}, Rename(pd1, made_pdf, out))

----------------------------------------------------------------------------
(* The run started by the convert button                                   *)

allowed_ext == { <<".","p","p","t">>, <<".","p","p","t","x">>,
                 <<".","p","p","t","m">> }

\* The extension is compared as it is spelled.
RECURSIVE Filter_case_sensitive(_, _)
Filter_case_sensitive(files, keep) ==
    IF files = <<>> THEN <<>>
    ELSE LET rest == Filter_case_sensitive(Tail(files), keep)
         IN IF files[1].is_file
               /\ (suffix(files[1].name) \in allowed_ext) = keep
            THEN <<files[1]>> \o rest ELSE rest

\* [p for p in all_files if p.is_file() and p.suffix.lower() in allowed_ext]
RECURSIVE Filter(_, _)
Filter(files, keep) ==
    IF files = <<>> THEN <<>>
    ELSE LET rest == Filter(Tail(files), keep)
         IN IF files[1].is_file
               /\ (lower(suffix(files[1].name)) \in allowed_ext) = keep
            THEN <<files[1]>> \o rest ELSE rest

\* sorted(pdf_dir.glob("*.pdf")): the names ending in .pdf, ascending.
\* The name at position k has k - 1 names of the set below it.
SortNames(S) ==
    [k \in 1..Cardinality(S) |->
        CHOOSE n \in S : Cardinality({ m \in S : StrLess(m, n) }) = k - 1]
glob_pdf(pd) == SortNames({ n \in DOMAIN pd : EndsWith(n, PdfExt) })

NoPrev == [made |-> FALSE, names |-> <<>>, classes |-> {}]

Init ==
    /\ SOFFICE \in BOOLEAN
    /\ zip_ok \in BOOLEAN
    /\ archive \in (IF zip_ok THEN Archives ELSE {{}})
    /\ behaviour = EmptyFn
    /\ pc = "idle"
    /\ all_files = <<>> /\ ppt_files = <<>> /\ skipped_files = <<>>
    /\ i = 0
    /\ errors = <<>> /\ success_count = 0 /\ progress = <<>>
    /\ work_dir = {} /\ pdf_dir = EmptyFn
    /\ uuid_ctr = 0
    /\ out_zip = NotPacked /\ tally = <<>> /\ report = <<>>
    /\ tmp_exists = FALSE
    /\ invoked = <<>> /\ results = <<>> /\ spawned = 0
    /\ run = 1 /\ prev = NoPrev
    /\ arg = <<>> /\ res = <<>>

\* The run goes on to the package step when no presentation was found.
Start_without_check ==
    /\ pc = "idle" /\ zip_ok
    /\ \E order \in Orders(archive) :
          /\ all_files' = order
          /\ ppt_files' = SortByKey(Filter(order, TRUE))
          /\ skipped_files' = Filter(order, FALSE)
          /\ pc' = IF Filter(order, TRUE) = <<>> THEN "package" ELSE "convert"
    /\ i' = 1
    /\ errors' = <<>> /\ success_count' = 0
    /\ progress' = <<0>>
    /\ tmp_exists' = TRUE
    /\ UNCHANGED <<SOFFICE, archive, zip_ok, behaviour, work_dir, pdf_dir, uuid_ctr,
                   out_zip, tally, report, invoked, results, spawned, run, prev, arg, res>>

\* Lines 147-181: the archive is extracted into a fresh temporary directory,
\* its files are listed in some order, classified and sorted.
Start ==
    /\ pc = "idle" /\ zip_ok
    /\ \E order \in Orders(archive) :
          /\ Filter(order, TRUE) # <<>>
          /\ all_files' = order
          /\ ppt_files' = SortByKey(Filter(order, TRUE))
          /\ skipped_files' = Filter(order, FALSE)
    /\ pc' = "convert"
    /\ i' = 1
    /\ errors' = <<>> /\ success_count' = 0
    /\ progress' = <<0>>
    /\ tmp_exists' = TRUE
    /\ UNCHANGED <<SOFFICE, archive, zip_ok, behaviour, work_dir, pdf_dir, uuid_ctr,
                   out_zip, tally, report, invoked, results, spawned, run, prev, arg, res>>

\* Lines 176-178: no presentation in the archive: st.stop() leaves the
\* with-block, which removes the temporary directory.
StopNoPpt ==
    /\ pc = "idle" /\ zip_ok
    /\ \E order \in Orders(archive) :
          /\ Filter(order, TRUE) = <<>>
          /\ all_files' = order
          /\ ppt_files' = <<>>
          /\ skipped_files' = Filter(order, FALSE)
    /\ pc' = "stopped"
    /\ tmp_exists' = FALSE
    /\ UNCHANGED <<SOFFICE, archive, zip_ok, behaviour, i, errors, success_count,
                   progress, work_dir, pdf_dir, uuid_ctr, out_zip, tally, report,
                   invoked, results, spawned, run, prev, arg, res>>

\* Lines 165-166: the uploaded file is not a readable archive: the exception
\* of zipfile leaves the with-block, which removes the temporary directory,
\* and ends the script.
ExtractFails ==
    /\ pc = "idle" /\ ~zip_ok
    /\ pc' = "crashed"
    /\ tmp_exists' = FALSE
    /\ UNCHANGED <<SOFFICE, archive, zip_ok, behaviour, all_files, ppt_files,
                   skipped_files, i, errors, success_count, progress,
                   work_dir, pdf_dir, uuid_ctr, out_zip, tally, report,
                   invoked, results, spawned, run, prev, arg, res>>

\* int(i / len(ppt_files) * 100) of line 209; for the list lengths of the
\* model the float product truncates to the integer quotient.
Percent(k, n) == (k * 100) \div n

\* What the converter may do with a document: anything the first time, the
\* same again afterwards; it is not called when no executable was found.
OutcomesFor(doc) ==
    IF ~SOFFICE THEN {NotCalled}
    ELSE IF doc \in DOMAIN behaviour THEN {behaviour[doc]}
    ELSE Outcomes

Record(doc, oc, bh) ==
    IF oc = NotCalled THEN bh
    ELSE [d \in DOMAIN bh \cup {doc} |-> IF d = doc THEN oc ELSE bh[d]]

\* The loop stops at the first document that fails.
ConvertStepAbort ==
    /\ pc = "convert"
    /\ i <= Len(ppt_files)
    /\ \E oc \in OutcomesFor(ppt_files[i]) :
         LET ppt == ppt_files[i]
             r   == convert_ppt_to_pdf(ppt, out_name(i, ppt.name), oc,
                                       uuid_ctr, work_dir, pdf_dir)
         IN /\ behaviour' = Record(ppt, oc, behaviour)
            /\ invoked' = Append(invoked, ppt)
            /\ uuid_ctr' = IF SOFFICE THEN uuid_ctr + 1 ELSE uuid_ctr
            /\ spawned' = IF r.ran THEN spawned + 1 ELSE spawned
            /\ work_dir' = r.work_dir
            /\ pdf_dir' = r.pdf_dir
            /\ IF r.ok
               THEN /\ success_count' = success_count + 1
                    /\ errors' = errors
                    /\ results' = Append(results, "Success")
                    /\ i' = i + 1
               ELSE /\ success_count' = success_count
                    /\ errors' = Append(errors, r.err)
                    /\ results' = Append(results, "Failure")
                    /\ i' = Len(ppt_files) + 1
            /\ progress' = Append(progress, Percent(i, Len(ppt_files)))
    /\ pc' = IF i' > Len(ppt_files) THEN "package" ELSE "convert"
    /\ UNCHANGED <<SOFFICE, archive, zip_ok, all_files, ppt_files, skipped_files,
                   out_zip, tally, report, tmp_exists, run, prev, arg, res>>

\* The converter is run without a time limit: a call that would have timed
\* out never returns.
ConvertStepHangs ==
    /\ pc = "convert"
    /\ i <= Len(ppt_files)
    /\ \E oc \in OutcomesFor(ppt_files[i]) :
         LET ppt == ppt_files[i]
             r   == convert_ppt_to_pdf(ppt, out_name(i, ppt.name), oc,
                                       uuid_ctr, work_dir, pdf_dir)
             hang == oc.exit = "timeout"
         IN /\ behaviour' = Record(ppt, oc, behaviour)
            /\ invoked' = IF hang THEN invoked ELSE Append(invoked, ppt)
            /\ uuid_ctr' = IF SOFFICE /\ ~hang THEN uuid_ctr + 1 ELSE uuid_ctr
            /\ spawned' = IF r.ran /\ ~hang THEN spawned + 1 ELSE spawned
            /\ work_dir' = IF hang THEN work_dir ELSE r.work_dir
            /\ pdf_dir' = IF hang THEN pdf_dir ELSE r.pdf_dir
            /\ success_count' = IF r.ok THEN success_count + 1 ELSE success_count
            /\ errors' = IF r.ok \/ hang THEN errors ELSE Append(errors, r.err)
            /\ results' = IF hang THEN results
                          ELSE Append(results, IF r.ok THEN "Success" ELSE "Failure")
            /\ i' = IF hang THEN i ELSE i + 1
            /\ progress' = IF hang THEN progress
                           ELSE Append(progress, Percent(i, Len(ppt_files)))
    /\ pc' = IF i' > Len(ppt_files) THEN "package" ELSE "convert"
    /\ UNCHANGED <<SOFFICE, archive, zip_ok, all_files, ppt_files, skipped_files,
                   out_zip, tally, report, tmp_exists, run, prev, arg, res>>

\* The outputs are numbered by the count of successes so far.
ConvertStepRenumber ==
    /\ pc = "convert"
    /\ i <= Len(ppt_files)
    /\ \E oc \in OutcomesFor(ppt_files[i]) :
         LET ppt == ppt_files[i]
             r   == convert_ppt_to_pdf(ppt, out_name(success_count + 1, ppt.name),
                                       oc, uuid_ctr, work_dir, pdf_dir)
         IN /\ behaviour' = Record(ppt, oc, behaviour)
            /\ invoked' = Append(invoked, ppt)
            /\ uuid_ctr' = IF SOFFICE THEN uuid_ctr + 1 ELSE uuid_ctr
            /\ spawned' = IF r.ran THEN spawned + 1 ELSE spawned
            /\ work_dir' = r.work_dir
            /\ pdf_dir' = r.pdf_dir
            /\ IF r.ok
               THEN /\ success_count' = success_count + 1
                    /\ errors' = errors
                    /\ results' = Append(results, "Success")
               ELSE /\ success_count' = success_count
                    /\ errors' = Append(errors, r.err)
                    /\ results' = Append(results, "Failure")
    /\ i' = i + 1
    /\ progress' = Append(progress, Percent(i, Len(ppt_files)))
    /\ pc' = IF i' > Len(ppt_files) THEN "package" ELSE "convert"
    /\ UNCHANGED <<SOFFICE, archive, zip_ok, all_files, ppt_files, skipped_files,
                   out_zip, tally, report, tmp_exists, run, prev, arg, res>>

\* Lines 200-209: one iteration of the batch loop, the call of
\* convert_ppt_to_pdf and the except clause included.
ConvertStep ==
    /\ pc = "convert"
    /\ i <= Len(ppt_files)
    /\ \E oc \in OutcomesFor(ppt_files[i]) :
         LET ppt == ppt_files[i]
             r   == convert_ppt_to_pdf(ppt, out_name(i, ppt.name), oc,
                                       uuid_ctr, work_dir, pdf_dir)
         IN /\ behaviour' = Record(ppt, oc, behaviour)
            /\ invoked' = Append(invoked, ppt)
            /\ uuid_ctr' = IF SOFFICE THEN uuid_ctr + 1 ELSE uuid_ctr
            /\ spawned' = IF r.ran THEN spawned + 1 ELSE spawned
            /\ work_dir' = r.work_dir
            /\ pdf_dir' = r.pdf_dir
            /\ IF r.ok
               THEN /\ success_count' = success_count + 1
                    /\ errors' = errors
                    /\ results' = Append(results, "Success")
               ELSE /\ success_count' = success_count
                    /\ errors' = Append(errors, r.err)
                    /\ results' = Append(results, "Failure")
    /\ i' = i + 1
    /\ progress' = Append(progress, Percent(i, Len(ppt_files)))
    /\ pc' = IF i' > Len(ppt_files) THEN "package" ELSE "convert"
    /\ UNCHANGED <<SOFFICE, archive, zip_ok, all_files, ppt_files, skipped_files,
                   out_zip, tally, report, tmp_exists, run, prev, arg, res>>

\* Lines 211-225: every *.pdf of the output directory is written to
\* PDFs.zip under its base name; the tally and the download are shown.
Package ==
    /\ pc = "package"
    /\ \E pdf_list \in { glob_pdf(pdf_dir) } :
          out_zip' = [made |-> TRUE,
                      entries |-> [k \in 1..Len(pdf_list) |->
                        [name |-> pdf_list[k], content |-> pdf_dir[pdf_list[k]]]]]
    /\ tally' = <<success_count, Len(ppt_files)>>
    /\ pc' = "report"
    /\ UNCHANGED <<SOFFICE, archive, zip_ok, behaviour, all_files, ppt_files,
                   skipped_files, i, errors, success_count, progress,
                   work_dir, pdf_dir, uuid_ctr, report, tmp_exists, invoked, results, spawned,
                   run, prev, arg, res>>

\* The directories of the run are left behind when the script ends.
Report_keeps_dir ==
    /\ pc = "report"
    /\ report' = errors
    /\ pc' = "done"
    /\ UNCHANGED <<SOFFICE, archive, zip_ok, behaviour, all_files, ppt_files,
                   skipped_files, i, errors, success_count, progress,
                   work_dir, pdf_dir, tmp_exists,
                   uuid_ctr, out_zip, tally, invoked, results, spawned, run, prev, arg, res>>

\* Lines 227-231: the failure messages are shown; the with-block ends and
\* the temporary directory is removed with all it holds.
Report ==
    /\ pc = "report"
    /\ report' = errors
    /\ work_dir' = {} /\ pdf_dir' = EmptyFn
    /\ tmp_exists' = FALSE
    /\ pc' = "done"
    /\ UNCHANGED <<SOFFICE, archive, zip_ok, behaviour, all_files, ppt_files,
                   skipped_files, i, errors, success_count, progress,
                   uuid_ctr, out_zip, tally, invoked, results, spawned, run, prev, arg, res>>

Next == Start \/ StopNoPpt \/ ExtractFails \/ ConvertStep \/ Package \/ Report

Spec == Init /\ [][Next]_vars

\* Once the button was pressed the script runs sequentially and every step
\* of it returns: the call of the converter is bounded by its timeout of 240
\* seconds (line 105). Pressing the button is the user's choice and is not
\* forced.
SpecLive ==
    /\ Init /\ [][Next]_vars
    /\ WF_vars(ConvertStep) /\ WF_vars(Package) /\ WF_vars(Report)

\* Most runs over the same uploaded archive.
MaxRuns == 2

\* What a finished run returned: the entry names of PDFs.zip in order, and
\* the classification of every document.
EntryNames(z) == [k \in 1..Len(z.entries) |-> z.entries[k].name]
Classes == { <<ppt_files[k], results[k]>> : k \in 1..Len(results) }

\* The button is pressed again with the same archive uploaded: the script
\* runs from the top in a new temporary directory, with new uuid4() values.
Rerun ==
    /\ pc \in {"done", "stopped", "crashed"}
    /\ run < MaxRuns
    /\ run' = run + 1
    /\ prev' = [made |-> out_zip.made, names |-> EntryNames(out_zip),
                 classes |-> Classes]
    /\ pc' = "idle"
    /\ all_files' = <<>> /\ ppt_files' = <<>> /\ skipped_files' = <<>>
    /\ i' = 0
    /\ errors' = <<>> /\ success_count' = 0 /\ progress' = <<>>
    /\ out_zip' = NotPacked /\ tally' = <<>> /\ report' = <<>>
    /\ invoked' = <<>> /\ results' = <<>> /\ spawned' = 0
    /\ UNCHANGED <<SOFFICE, archive, zip_ok, behaviour, work_dir, pdf_dir, uuid_ctr,
                   tmp_exists, arg, res>>

NextTwice == Next \/ Rerun

SpecTwice == Init /\ [][NextTwice]_vars

----------------------------------------------------------------------------
(* The output name and the sort applied to inputs of their own             *)

\* Largest position in the sorted list for which an output name is formed.
MaxIndex == 101
\* Longest list that is sorted.
MaxList == 3

Positions == (1..12) \cup (95..MaxIndex)

Repeat(c, n) == [k \in 1..n |-> c]

Pptx == <<".","p","p","t","x">>

\* Names with the same stem, with stems equal after sanitizing, with stems
\* equal after truncation to max_len, and a stem that starts like an index.
StemNames ==
    { <<"x">> \o Pptx, <<"x",".","p","p","t">>,
      <<"a",":","b">> \o Pptx, <<"a","?","*","b">> \o Pptx,
      <<"0","_","x">> \o Pptx,
      Repeat("a", max_len) \o <<"x">> \o Pptx,
      Repeat("a", max_len) \o <<"y">> \o Pptx }

\* Names of every tier: chapter names, a name matching both patterns, names
\* with bare digits (two of the same number), names without digits.
SortNamesPool ==
    { N_CH01, <<"c","h"," ","2",".","p","p","t">>,
      <<"3","c","h","1","0">> \o Pptx,
      <<"1","0","_","s">> \o Pptx, <<"9",".","p","p","t">>,
      <<"a","1">> \o Pptx, <<"B","1">> \o Pptx,
      <<"n","o","t","e","s">> \o Pptx }
\* One of the names is also found in a second folder.
SortFiles == { File("A", n) : n \in SortNamesPool } \cup { File("B", N_CH01) }

InitFunction ==
    /\ SOFFICE = TRUE
    /\ zip_ok = TRUE
    /\ archive = {}
    /\ behaviour = EmptyFn
    /\ pc = "function"
    /\ all_files = <<>> /\ ppt_files = <<>> /\ skipped_files = <<>>
    /\ i = 0
    /\ errors = <<>> /\ success_count = 0 /\ progress = <<>>
    /\ work_dir = {} /\ pdf_dir = EmptyFn
    /\ uuid_ctr = 0
    /\ out_zip = NotPacked /\ tally = <<>> /\ report = <<>>
    /\ tmp_exists = FALSE
    /\ invoked = <<>> /\ results = <<>> /\ spawned = 0
    /\ run = 1 /\ prev = NoPrev
    /\ arg = <<>> /\ res = <<>>

runVars == <<SOFFICE, archive, zip_ok, behaviour, pc, all_files, ppt_files,
             skipped_files, i, errors, success_count, progress, work_dir, pdf_dir,
             uuid_ctr, out_zip, tally, report, tmp_exists, invoked, results,
             spawned, run, prev>>

\* Line 203 for two positions of the list and the names found there.
ApplyOutName ==
    /\ pc = "function" /\ arg = <<>>
    /\ \E p \in Positions, q \in Positions, s \in StemNames, t \in StemNames :
          /\ arg' = <<p, s, q, t>>
          /\ res' = <<out_name(p, s), out_name(q, t)>>
    /\ UNCHANGED runVars

SpecNames == InitFunction /\ [][ApplyOutName]_vars

\* Line 181 for a list of files in the order they were found.
ApplySort ==
    /\ pc = "function" /\ arg = <<>>
    /\ \E n \in 0..MaxList :
          \E files \in [1..n -> SortFiles] :
              /\ arg' = files
              /\ res' = SortByKey(files)
    /\ UNCHANGED runVars

SpecSort == InitFunction /\ [][ApplySort]_vars

\* Longest stem built freely from the characters below.
MaxStem == 3
StemChars == {" ", "\t", ":", "|", "a"}
\* Every short stem, alone and after a run of letters that ends one
\* character before max_len.
Stems ==
    LET short == UNION { [1..n -> StemChars] : n \in 0..MaxStem }
    IN short \cup { Repeat("a", max_len - 1) \o t : t \in short }

\* Line 202 for one stem.
ApplySafe ==
    /\ pc = "function" /\ arg = <<>>
    /\ \E st \in Stems :
          /\ arg' = <<st>>
          /\ res' = safe_filename(st)
    /\ UNCHANGED runVars

SpecSafe == InitFunction /\ [][ApplySafe]_vars

----------------------------------------------------------------------------
(* Properties of a run                                                     *)

BatchOver == pc \in {"package", "report", "done"}
Packaged  == pc \in {"report", "done"}

\* Validated output: at least 5000 bytes and the %PDF- signature.
Validated(c) == c.size >= 5000 /\ c.sig

Successes == { k \in 1..Len(results) : results[k] = "Success" }
Failures  == { k \in 1..Len(results) : results[k] = "Failure" }

\* The name of the k-th document's output.
OutNameOf(k) == out_name(k, ppt_files[k].name)

\* C1: at the end of a run the number of entries of the output package
\* equals the recorded success count, whatever the outcomes of the files.
C1_EntryCountIsSuccessCount ==
    Packaged => Len(out_zip.entries) = success_count

\* C2: every entry of the output package is a validated PDF named
\* {02d-index}_{sanitized-stem}.pdf of a document recorded as Success, so a
\* failed document contributes no entry.
C2_EntriesAreValidatedSuccesses ==
    Packaged =>
        \A e \in 1..Len(out_zip.entries) :
            /\ Validated(out_zip.entries[e].content)
            /\ \E k \in Successes : out_zip.entries[e].name = OutNameOf(k)

\* C3: the worker removes the temporary input copy on the success path and
\* on every failure path, so work/ holds no copy after any iteration.
C3_NoTemporaryCopyLeft ==
    pc \in {"convert", "package", "report"} => work_dir = {}

\* C4: the worker is invoked exactly once for each accepted document, in
\* sorted order, also for the documents after a failed one, and at the end
\* success count + number of failures = number of accepted documents.
C4_EveryDocumentConvertedOnce ==
    /\ pc = "convert" => /\ invoked = SubSeq(ppt_files, 1, i - 1)
                         /\ Len(results) = i - 1
    /\ BatchOver => /\ invoked = ppt_files
                    /\ Len(results) = Len(ppt_files)
                    /\ success_count = Cardinality(Successes)
                    /\ Len(errors) = Cardinality(Failures)
                    /\ success_count + Len(errors) = Len(ppt_files)

\* A batch of two documents whose first failed and whose second succeeded.
C4_Witness ==
    /\ pc = "package" /\ Len(ppt_files) = 2
    /\ results = <<"Failure", "Success">>

C6_SuccessOnlyIfValidated ==
    \A k \in Successes :
        LET oc == behaviour[ppt_files[k]]
        IN /\ oc.copy = "ok" /\ oc.exit = "zero"
           /\ oc.produced # NoFile
           /\ oc.produced.size >= 5000 /\ oc.produced.sig
           /\ pc \in {"convert", "package", "report"} =>
                 /\ OutNameOf(k) \in DOMAIN pdf_dir
                 /\ pdf_dir[OutNameOf(k)] = Content(oc.produced, ppt_files[k])
                 /\ \A j \in Successes \ {k} : OutNameOf(j) # OutNameOf(k)

\* Two documents of the same name, both converted, at the end of the batch.
C6_Witness ==
    /\ pc = "report" /\ results = <<"Success", "Success">>
    /\ ppt_files[1].name = ppt_files[2].name

\* The j-th failed document, in processing order.
RECURSIVE FailedDocs(_)
FailedDocs(k) ==
    IF k = 0 THEN <<>>
    ELSE IF results[k] = "Failure" THEN Append(FailedDocs(k - 1), ppt_files[k])
    ELSE FailedDocs(k - 1)

\* C8: the failure report holds one entry per failed file, in processing
\* order, and each entry names its source file and gives the reason.
C8_ReportNamesEveryFailedFile ==
    pc = "done" =>
        LET failed == FailedDocs(Len(results))
        IN /\ Len(report) = Len(failed)
           /\ \A j \in 1..Len(report) :
                 /\ report[j].file = failed[j].name
                 /\ report[j].reason # "none"

\* C7: a second run on the same archive with the same converter behaviour
\* gives the same archive entry names and the same classification of every
\* document, whatever temporary names were generated and in whatever order
\* the files were discovered.
C7_SecondRunSameResult ==
    (run = 2 /\ pc = "done" /\ prev.made) =>
        /\ EntryNames(out_zip) = prev.names
        /\ Classes = prev.classes

\* C9: the output names of two distinct positions of the sorted list
\* differ, also when the stems are identical or sanitize or truncate to the
\* same text, and also beyond position 99.
C9_OutputNamesUnique ==
    (arg # <<>> /\ arg[1] # arg[3]) => res[1] # res[2]

\* Positions 10 and 100 with different stems that sanitize to one text.
C9_Witness ==
    /\ arg # <<>> /\ arg[1] = 10 /\ arg[3] = 100
    /\ arg[2] # arg[4]
    /\ safe_filename(stem(arg[2])) = safe_filename(stem(arg[4]))
    /\ res[1] # res[2]

\* The name holds CH, optional spaces and a digit, in any case of letters.
IsChapterName(n) ==
    \E p \in 1..Len(n), q \in 1..Len(n) :
        /\ p + 1 < q
        /\ n[p] \in {"C", "c"} /\ n[p + 1] \in {"H", "h"}
        /\ \A m \in (p + 2)..(q - 1) : n[m] = " "
        /\ IsDigit(n[q])
HasDigits(n) == \E p \in 1..Len(n) : IsDigit(n[p])
TierOf(n) == IF IsChapterName(n) THEN 0 ELSE IF HasDigits(n) THEN 1 ELSE 2

Count(seq, x) == Cardinality({ k \in 1..Len(seq) : seq[k] = x })

\* C10: the sorted list holds the same files; chapter names come before
\* names with bare digits, which come before names without digits; within
\* the first two tiers the numbers ascend; and a name matching both
\* patterns has the key of the chapter rule.
C10_SortedByTierAndNumber ==
    /\ Len(res) = Len(arg)
    /\ \A f \in SortFiles : Count(res, f) = Count(arg, f)
    /\ \A p \in 1..Len(res) : chapter_key(res[p].name)[1] = TierOf(res[p].name)
    /\ \A p \in 1..Len(res), q \in 1..Len(res) :
          p < q =>
            /\ TierOf(res[p].name) <= TierOf(res[q].name)
            /\ (TierOf(res[p].name) = TierOf(res[q].name) /\ TierOf(res[p].name) < 2)
                  => chapter_key(res[p].name)[2] <= chapter_key(res[q].name)[2]

\* A list found in the opposite order: no digits, bare digits, and a name
\* matching both patterns whose chapter number is not its first number.
C10_Witness ==
    /\ Len(arg) = 3
    /\ TierOf(arg[1].name) = 2 /\ TierOf(arg[2].name) = 1
    /\ IsChapterName(arg[3].name) /\ IsDigit(arg[3].name[1])
    /\ res = <<arg[3], arg[2], arg[1]>>

\* Files of one tier and one number.
SameTierAndNumber(f, g) ==
    /\ chapter_key(f.name)[1] = chapter_key(g.name)[1]
    /\ chapter_key(f.name)[2] = chapter_key(g.name)[2]

\* The files of a list that have a given name, in their order in the list.
WithName(seq, n) == SelectSeq(seq, LAMBDA f : f.name = n)

\* C11 as claimed: two files of one tier and one number are in the order of
\* their names compared without regard to case ('a1.pptx' before 'B1.pptx').
C11_TiesByNameIgnoringCase ==
    \A p \in 1..Len(res), q \in 1..Len(res) :
        (p < q /\ SameTierAndNumber(res[p], res[q]))
            => ~StrLess(lower(res[q].name), lower(res[p].name))

\* C11 amended: two files of one tier and one number are in the order of
\* their names compared by code point, upper case before lower case
\* ('B1.pptx' before 'a1.pptx'), and files of the same name stay in the
\* order in which they were found.
C11_TiesByNameCodePoint ==
    /\ \A p \in 1..Len(res), q \in 1..Len(res) :
          (p < q /\ SameTierAndNumber(res[p], res[q]))
              => ~StrLess(res[q].name, res[p].name)
    /\ \A f \in SortFiles : WithName(res, f.name) = WithName(arg, f.name)

\* a1.pptx found before B1.pptx, and a chapter file found last.
C11_Witness ==
    /\ Len(arg) = 3
    /\ arg[1].name = <<"a","1">> \o Pptx /\ arg[2].name = <<"B","1">> \o Pptx
    /\ arg[3] = File("B", N_CH01)
    /\ res = <<arg[3], arg[2], arg[1]>>

\* The failure message of the k-th document, which failed.
ErrorOf(k) == errors[Cardinality({ j \in 1..k : results[j] = "Failure" })]

TimedOut(k) ==
    ppt_files[k] \in DOMAIN behaviour /\ behaviour[ppt_files[k]].exit = "timeout"

\* No failed conversion left a file in the output directory.
NothingLeftBehind ==
    \A k \in Failures :
        ppt_files[k] \in DOMAIN behaviour
            => behaviour[ppt_files[k]].produced = NoFile

C12_TimeoutRecorded ==
    /\ \A k \in 1..Len(results) :
          TimedOut(k) => /\ results[k] = "Failure"
                         /\ ErrorOf(k).reason = "Timeout"
    /\ BatchOver => invoked = ppt_files
    /\ Packaged =>
          /\ tally = <<Cardinality(Successes), Len(ppt_files)>>
          /\ \A k \in Successes :
                \E e \in 1..Len(out_zip.entries) :
                    out_zip.entries[e].name = OutNameOf(k)
          /\ \A k \in Failures :
                \A e \in 1..Len(out_zip.entries) :
                    out_zip.entries[e].name # OutNameOf(k)
          /\ NothingLeftBehind =>
                Len(out_zip.entries) = Cardinality(Successes)

ExtOk(n) ==
    \E e \in { <<"p","p","t">>, <<"p","p","t","x">>, <<"p","p","t","m">> } :
        Len(n) > Len(e) + 1 /\ EndsWith(lower(n), <<".">> \o e)
Accepted(f) == f.is_file /\ ExtOk(f.name)
Range(seq) == { seq[k] : k \in DOMAIN seq }
\* The archive was extracted and its entries were classified.
Classified == zip_ok /\ pc \in {"convert", "package", "report", "done", "stopped"}

\* C13: when the archive holds no regular file with an accepted extension
\* the run stops with the message that no presentation was found: the
\* converter is never called, the progress bar and the tally are never
\* shown, and no package is written.
C13_NoEligibleFilesAborts ==
    (Classified /\ ~\E f \in archive : Accepted(f)) =>
        /\ pc = "stopped"
        /\ invoked = <<>> /\ spawned = 0 /\ results = <<>>
        /\ progress = <<>> /\ tally = <<>> /\ report = <<>>
        /\ ~out_zip.made

\* A text file and a folder named like a presentation: the run stopped.
C13_Witness ==
    /\ pc = "stopped"
    /\ archive = { File("A", N_readme), Folder("A", N_dir) }
    /\ Len(all_files) = 2 /\ ppt_files = <<>>
    /\ progress = <<>> /\ ~out_zip.made

\* C14: the accepted and the rejected list partition the regular files of
\* the extracted tree: accepted are exactly those whose extension is ppt,
\* pptx or pptm in any case, rejected are all other regular files, no file
\* is in both or listed twice, and the converter is only called with
\* accepted files.
C14_ClassificationPartitions ==
    Classified =>
        /\ Range(ppt_files) = { f \in archive : Accepted(f) }
        /\ Range(skipped_files) = { f \in archive : f.is_file /\ ~ExtOk(f.name) }
        /\ Range(ppt_files) \cap Range(skipped_files) = {}
        /\ Len(ppt_files) = Cardinality(Range(ppt_files))
        /\ Len(skipped_files) = Cardinality(Range(skipped_files))
        /\ \A k \in DOMAIN invoked :
              Accepted(invoked[k]) /\ invoked[k] \notin Range(skipped_files)

\* A presentation with an upper-case extension beside a text file: the
\* first was converted, the second was only listed.
C14_Witness ==
    /\ pc = "done"
    /\ ppt_files = << File("A", N_9) >>
    /\ skipped_files = << File("A", N_readme) >>
    /\ invoked = ppt_files

\* The converter was run on the k-th document and left a file of less than
\* 5000 bytes.
SmallFile(k) ==
    /\ ppt_files[k] \in DOMAIN behaviour
    /\ behaviour[ppt_files[k]].produced # NoFile
    /\ behaviour[ppt_files[k]].produced.size < 5000
ExitOf(k) == behaviour[ppt_files[k]].exit
\* The two messages of the size check and of the header check.
CorruptOutput == {"CorruptSize", "CorruptHeader"}

\* C15 as stated: a produced file of less than 5000 bytes makes the call
\* fail with the error of a corrupt output, whatever the exit status.
C15_SmallFileIsCorruptOutput ==
    \A k \in 1..Len(results) :
        SmallFile(k) =>
            results[k] = "Failure" /\ ErrorOf(k).reason \in CorruptOutput

\* C15: a produced file of less than 5000 bytes always makes the call fail:
\* with the error of the size check when the converter exited with zero,
\* with the error of a failed conversion when it exited with another
\* status, and with the timeout when it was killed.
C15_SmallFileAlwaysFails ==
    \A k \in 1..Len(results) :
        SmallFile(k) =>
            /\ results[k] = "Failure"
            /\ ErrorOf(k).reason =
                  CASE ExitOf(k) = "zero"    -> "CorruptSize"
                    [] ExitOf(k) = "nonzero" -> "ConversionFailed"
                    [] ExitOf(k) = "timeout" -> "Timeout"

\* One document for which the converter exited with zero and one for which
\* it exited with another status, each leaving 4999 bytes: both failed.
C15_Witness ==
    /\ pc = "done" /\ Len(ppt_files) = 2
    /\ SmallFile(1) /\ ExitOf(1) = "zero"
    /\ SmallFile(2) /\ ExitOf(2) = "nonzero"
    /\ results = <<"Failure", "Failure">>
    /\ report[1].reason = "CorruptSize" /\ report[2].reason = "ConversionFailed"

\* C16: whatever the stem, the sanitized stem holds none of the characters
\* \ / : * ? " < > |, neither starts nor ends with whitespace, is at most
\* 80 characters long and is not empty; a stem of which nothing is left is
\* replaced by the fallback name.
C16_SanitizedStemIsSafe ==
    arg # <<>> =>
        /\ res # <<>>
        /\ Len(res) <= 80
        /\ \A k \in 1..Len(res) :
              res[k] \notin {"\\", "/", ":", "*", "?", "\"", "<", ">", "|"}
        /\ res[1] \notin {" ", "\t"} /\ res[Len(res)] \notin {" ", "\t"}
        /\ (\A k \in 1..Len(arg[1]) : arg[1][k] \in {" ", "\t"})
              => res = <<"f","i","l","e">>

\* A stem of 82 characters whose 80th is a blank and whose last is unsafe:
\* it is cut after the 80th and the blank is stripped.
C16_Witness ==
    /\ arg = << Repeat("a", 79) \o <<" ", "a", ":">> >>
    /\ res = Repeat("a", 79)

\* The two characters that start the output name of the k-th document of a
\* list of fewer than ten.
IndexText(k) == <<"0", <<"1","2","3","4","5","6","7","8","9">>[k]>>
\* The name starts with the index k and an underscore.
NumberedAs(n, k) == StartsWith(n, IndexText(k) \o <<"_">>)
\* The validated files of a directory listing that were made from a document.
MadeFrom(doc, names, content) ==
    { n \in names : content[n].of = doc /\ Validated(content[n])
                     /\ ~StartsWith(n, InputPrefix) }

\* C17: the output of a converted document carries as index the position
\* of the document in the sorted list, failed documents counted: in the
\* output directory and in the package the file made from the k-th document
\* starts with k written in two digits, whatever failed before it.
C17_IndexIsPositionInSortedList ==
    \A k \in Successes :
        /\ tmp_exists =>
              /\ MadeFrom(ppt_files[k], DOMAIN pdf_dir, pdf_dir) # {}
              /\ \A n \in MadeFrom(ppt_files[k], DOMAIN pdf_dir, pdf_dir) :
                    NumberedAs(n, k)
        /\ Packaged =>
              \E e \in DOMAIN out_zip.entries :
                  /\ out_zip.entries[e].content.of = ppt_files[k]
                  /\ NumberedAs(out_zip.entries[e].name, k)

\* The first of two documents failed and left nothing, the second was
\* converted: the package holds one file, numbered 02.
C17_Witness ==
    /\ pc = "done"
    /\ results = <<"Failure", "Success">>
    /\ Len(out_zip.entries) = 1
    /\ NumberedAs(out_zip.entries[1].name, 2)

\* The files of the output directory that were renamed to a final name:
\* those that do not have the name the converter writes to.
FinalNames == { n \in DOMAIN pdf_dir : ~StartsWith(n, InputPrefix) }

\* C18: a validated PDF that was placed at its final name stays in the
\* output directory with the same content for as long as the run lasts: no
\* later step of the run removes, renames or overwrites it.
C18_FinalFileStays ==
    [][ \A n \in FinalNames :
          (Validated(pdf_dir[n]) /\ tmp_exists') =>
              /\ n \in DOMAIN pdf_dir'
              /\ pdf_dir'[n] = pdf_dir[n] ]_vars

\* Two documents of the same name from different folders were both
\* converted: the output of the first is still there beside the second's.
C18_Witness ==
    /\ tmp_exists /\ results = <<"Success", "Success">>
    /\ ppt_files[1].name = ppt_files[2].name
    /\ OutNameOf(1) \in DOMAIN pdf_dir /\ OutNameOf(2) \in DOMAIN pdf_dir
    /\ pdf_dir[OutNameOf(1)].of = ppt_files[1]
    /\ pdf_dir[OutNameOf(2)].of = ppt_files[2]

\* The script is not running: before the button is pressed, and after the
\* run ended in one of its three ways.
RunEnded == pc \in {"done", "stopped", "crashed"}

\* C19: the temporary directory of a run exists while the run works and is
\* gone, with everything in it, once the run has ended, whether it
\* completed, stopped for want of a presentation or failed to extract the
\* archive; nothing of it exists while the script is not running.
C19_ScratchAreaDiscarded ==
    /\ (RunEnded \/ pc = "idle") =>
          ~tmp_exists /\ work_dir = {} /\ pdf_dir = EmptyFn
    /\ pc \in {"convert", "package", "report"} => tmp_exists

\* A run ended whose only document failed and left its files in both
\* directories, from where one was packaged: nothing is left.
C19_Witness ==
    /\ pc = "done"
    /\ results = <<"Failure">> /\ report[1].reason = "CorruptHeader"
    /\ Len(out_zip.entries) = 1
    /\ ~tmp_exists /\ work_dir = {} /\ pdf_dir = EmptyFn

====
